---- MODULE Spec2Model ----
(***************************************************************************)
(* Audio capture and live transcription pipeline of scam_call_immunizer.   *)
(*                                                                         *)
(*   useAudioRecorder   src/src/hooks/useAudioRecorder.ts                  *)
(*   useDeepgramLive    src/src/hooks/useDeepgramLive.ts                   *)
(*   DeepgramLiveTranscription / deepgramClient   src/unnamed/part_001     *)
(*                                                                         *)
(* Everything runs on one JavaScript thread: an action is one handler run  *)
(* to completion (a user call up to its first await, the continuation of   *)
(* an await, an event listener, an interval callback).  The two hooks      *)
(* share no state, so a behaviour exercises one of them (mounted); error   *)
(* and streamRef are the fields of that hook.  A callback is taken to see  *)
(* the state of the latest render.                                         *)
(***************************************************************************)
EXTENDS Integers, Sequences, FiniteSets

VARIABLES
    mounted,              \* "recorder" | "live": the hook under exercise;
                          \* "none" once its component has unmounted
    lastOp,               \* history: the handler that ran last
    lastCall,             \* history: the last call made by the component
    teardown,             \* history: what the last stopListening released
    arrived,              \* history: texts of the final Transcript events
                          \* received since the transcript was last cleared
    \* ---- platform --------------------------------------------------------
    hasMediaDevices,      \* navigator.mediaDevices.getUserMedia exists
    hasMediaRecorder,     \* window.MediaRecorder exists
    supported,            \* types MediaRecorder.isTypeSupported accepts
    pendingGUM,           \* getUserMedia promises not yet settled
    streams,              \* MediaStreams handed out so far
    recorders,            \* MediaRecorder objects created so far
    timers,               \* setInterval handles: TRUE while not cleared
    urls,                 \* object URLs created so far
    now,                  \* Date.now(), in seconds
    \* ---- useAudioRecorder ------------------------------------------------
    recordingState, audioURL, error, duration,
    mediaRecorderRef, audioChunksRef, streamRef, startTimeRef,
    durationIntervalRef,
    \* ---- platform, streaming side ----------------------------------------
    graphs,               \* AudioContext + ScriptProcessorNode pairs created
    conns,                \* live connections created by client.listen.live
    lastSend,             \* history: the last frame handed to connection.send
    \* ---- deepgramClient (module singleton) --------------------------------
    connection,           \* this.connection
    clientIsConnected,    \* this.isConnected
    \* ---- useDeepgramLive --------------------------------------------------
    transcript, interimTranscript, finalTranscript, confidence, words,
    isConnected, isListening, connectionState, audioContextRef, processorRef,
    \* ---- AIAnalyzer -------------------------------------------------------
    analysis              \* the result of the last analyzeResponse

recVars == <<recordingState, audioURL, error, duration, mediaRecorderRef,
             audioChunksRef, streamRef, startTimeRef, durationIntervalRef>>
envVars == <<hasMediaDevices, hasMediaRecorder, supported, pendingGUM, streams,
             recorders, timers, urls, now>>
liveVars == <<graphs, conns, lastSend, connection, clientIsConnected,
              transcript, interimTranscript, finalTranscript, confidence,
              words, isConnected, isListening, connectionState,
              audioContextRef, processorRef>>
\* what only the recorder hook and its platform objects use
recOnly == <<hasMediaRecorder, recorders, timers, urls, now, recordingState,
             audioURL, duration, mediaRecorderRef, audioChunksRef,
             startTimeRef, durationIntervalRef>>
vars == <<mounted, lastOp, lastCall, teardown, arrived, envVars, recVars,
          liveVars, analysis>>

\* ---- bounds ---------------------------------------------------------------
MaxStreams == 2      \* MediaStreams handed out in one behaviour
MaxPending == 2      \* getUserMedia calls in flight at once
MaxChunks == 2       \* chunks held in audioChunksRef
MaxChunkSize == 1    \* bytes of one dataavailable blob
MaxUrls == 2         \* object URLs created in one behaviour
MaxTime == 1         \* seconds the clock advances

NULL == 0            \* null reference; object handles are 1, 2, ...

\* err.name of a rejected getUserMedia: a name the catch block of
\* startRecording tells apart and one it does not
GumFailures == {"NotAllowedError", "Other"}

\* calls whose repetition is of interest
StopCalls == {"stopRecording", "resetRecording", "stopListening"}

\* placeholder of a history record that holds no Transcript event
NoEvent ==
    [transcript |-> <<>>, confidence |-> 0, is_final |-> FALSE,
     hasWords |-> FALSE, words |-> <<>>]

\* history record of a handler run; again: the same stop or reset call ran
\* just before; ev: the result a Transcript listener handed to onTranscript
OpEv(name, flag, ev) ==
    [op |-> name, flag |-> flag,
     again |-> (name \in StopCalls /\ lastOp.op = name), ev |-> ev]
Op(name, flag) == OpEv(name, flag, NoEvent)

\* the recording session referenced by the recorder hook is the only one in
\* progress: no acquisition is in flight and no other stream, timer or
\* recorder is alive
SoleSession ==
    /\ mounted = "recorder"
    /\ pendingGUM = <<>>
    /\ streamRef # NULL
    /\ mediaRecorderRef # NULL
    /\ durationIntervalRef # NULL
    /\ recorders[mediaRecorderRef].stream = streamRef
    /\ \A s \in DOMAIN streams : streams[s].live => s = streamRef
    /\ \A t \in DOMAIN timers : timers[t] => t = durationIntervalRef
    /\ \A r \in DOMAIN recorders :
           r # mediaRecorderRef =>
               recorders[r].state = "inactive" /\ recorders[r].pendingEv = "none"

\* history record of a call of the component; failed: the hook showed an
\* error when the call was made; sole: SoleSession held when it was made
Call(name, flag) ==
    [op |-> name, flag |-> flag, failed |-> (error # "none"),
     sole |-> SoleSession]

RemoveAt(s, i) == [j \in 1..(Len(s) - 1) |-> IF j < i THEN s[j] ELSE s[j + 1]]

RECURSIVE SumSeq(_)
SumSeq(s) == IF s = <<>> THEN 0 ELSE Head(s) + SumSeq(Tail(s))

\* Blob.size of new Blob(chunks)
BlobSize(chunks) == SumSeq(chunks)

\* ---- platform objects -----------------------------------------------------

\* stream.getTracks().forEach(track => track.stop())
StopTracks(strs, s) == [strs EXCEPT ![s].live = FALSE]

\* A MediaRecorder whose tracks have all ended is stopped by the platform:
\* it becomes inactive and queues dataavailable, then stop.
TracksEnded(recs, s) ==
    [r \in DOMAIN recs |->
        IF recs[r].stream = s /\ recs[r].state = "recording"
        THEN [recs[r] EXCEPT !.state = "inactive", !.pendingEv = "data"]
        ELSE recs[r]]

\* MediaRecorder.stop(): nothing on an inactive recorder, otherwise the
\* recorder becomes inactive and queues dataavailable, then stop.
RecorderStop(recs, r) ==
    IF recs[r].state = "recording"
    THEN [recs EXCEPT ![r].state = "inactive", ![r].pendingEv = "data"]
    ELSE recs

\* URL.revokeObjectURL(u)
Revoke(us, u) == IF u = NULL THEN us ELSE [us EXCEPT ![u].live = FALSE]

\* clearInterval(t)
ClearInterval(ts, t) == IF t = NULL THEN ts ELSE [ts EXCEPT ![t] = FALSE]

\* ---- useAudioRecorder -----------------------------------------------------

\* the message chosen by the catch block of startRecording
RecErrorMessage(name) ==
    CASE name = "NotAllowedError"   -> "allow microphone access"
      [] name = "NotFoundError"     -> "no microphone found"
      [] name = "NotSupportedError" -> "recording not supported"
      [] OTHER                      -> "could not access microphone"

\* catch block of startRecording; nothing else of the state is touched
RecCatch(name, strs, recs) ==
    /\ error' = RecErrorMessage(name)
    /\ recordingState' = "inactive"
    /\ IF streamRef # NULL
       THEN /\ streams' = StopTracks(strs, streamRef)
            /\ recorders' = TracksEnded(recs, streamRef)
       ELSE /\ streams' = strs
            /\ recorders' = recs
    /\ streamRef' = NULL

\* startRecording refusing to run while an error is shown
StartRecording_RefuseAfterError ==
    /\ mounted = "recorder"
    /\ Len(pendingGUM) < MaxPending
    /\ lastOp' = Op("startRecording",
                    pendingGUM # <<>> \/ recordingState = "recording")
    /\ lastCall' = Call("startRecording",
                        pendingGUM # <<>> \/ recordingState = "recording")
    /\ IF error # "none"
       THEN UNCHANGED <<urls, audioURL, audioChunksRef, duration, error,
                        pendingGUM, recordingState, streamRef, streams,
                        recorders>>
       ELSE /\ urls' = Revoke(urls, audioURL)
            /\ audioURL' = NULL
            /\ audioChunksRef' = <<>>
            /\ duration' = 0
            /\ IF hasMediaDevices
               THEN /\ error' = "none"
                    /\ pendingGUM' = Append(pendingGUM, [cancelled |-> FALSE])
                    /\ UNCHANGED <<recordingState, streamRef, streams,
                                   recorders>>
               ELSE /\ RecCatch("Other", streams, recorders)
                    /\ UNCHANGED pendingGUM
    /\ UNCHANGED <<mounted, teardown, arrived, liveVars, hasMediaDevices, supported, analysis,
                   hasMediaRecorder, timers, now,
                   mediaRecorderRef, startTimeRef, durationIntervalRef>>

\* startRecording up to the await of getUserMedia
StartRecording ==
    /\ mounted = "recorder"
    /\ Len(pendingGUM) < MaxPending
    /\ lastOp' = Op("startRecording",
                    pendingGUM # <<>> \/ recordingState = "recording")
    /\ lastCall' = Call("startRecording",
                        pendingGUM # <<>> \/ recordingState = "recording")
    /\ urls' = Revoke(urls, audioURL)
    /\ audioURL' = NULL
    /\ audioChunksRef' = <<>>
    /\ duration' = 0
    /\ IF hasMediaDevices
       THEN /\ error' = "none"
            /\ pendingGUM' = Append(pendingGUM, [cancelled |-> FALSE])
            /\ UNCHANGED <<recordingState, streamRef, streams, recorders>>
       ELSE /\ RecCatch("Other", streams, recorders)
            /\ UNCHANGED pendingGUM
    /\ UNCHANGED <<mounted, teardown, arrived, liveVars, hasMediaDevices, supported, analysis, hasMediaRecorder,
                   timers, now,
                   mediaRecorderRef, startTimeRef, durationIntervalRef>>

\* getUserMedia rejects: catch block
RecGumReject(i, name) ==
    /\ mounted = "recorder"
    /\ i \in DOMAIN pendingGUM
    /\ lastOp' = Op("recGumReject", pendingGUM[i].cancelled)
    /\ UNCHANGED lastCall
    /\ pendingGUM' = RemoveAt(pendingGUM, i)
    /\ RecCatch(name, streams, recorders)
    /\ UNCHANGED <<mounted, teardown, arrived, liveVars, hasMediaDevices, supported, analysis, hasMediaRecorder,
                   timers, urls,
                   now, audioURL, duration, mediaRecorderRef, audioChunksRef,
                   startTimeRef, durationIntervalRef>>

\* the encodings startRecording asks for, in its order of preference
PreferredTypes == <<"audio/webm;codecs=opus", "audio/webm", "audio/mp4">>

\* the platform default: no mimeType option is passed
DefaultType == ""

\* the cascade of isTypeSupported tests, preferring audio/mp4
ChooseMimeType_Mp4First(sup) ==
    IF PreferredTypes[3] \in sup THEN PreferredTypes[3]
    ELSE IF PreferredTypes[1] \in sup THEN PreferredTypes[1]
    ELSE IF PreferredTypes[2] \in sup THEN PreferredTypes[2]
    ELSE DefaultType

\* the cascade of isTypeSupported tests
ChooseMimeType(sup) ==
    IF PreferredTypes[1] \in sup THEN PreferredTypes[1]
    ELSE IF PreferredTypes[2] \in sup THEN PreferredTypes[2]
    ELSE IF PreferredTypes[3] \in sup THEN PreferredTypes[3]
    ELSE DefaultType

\* getUserMedia resolves: the rest of startRecording
RecGumResolve(i) ==
    /\ mounted = "recorder"
    /\ i \in DOMAIN pendingGUM
    /\ Len(streams) < MaxStreams
    /\ lastOp' = Op("recGumResolve", pendingGUM[i].cancelled)
    /\ UNCHANGED lastCall
    /\ pendingGUM' = RemoveAt(pendingGUM, i)
    /\ LET s == Len(streams) + 1
           strs == Append(streams, [live |-> TRUE])
       IN IF hasMediaRecorder
          THEN LET r == Len(recorders) + 1
                   t == Len(timers) + 1
               IN /\ streams' = strs
                  /\ streamRef' = s
                  /\ recorders' = Append(recorders,
                        [stream |-> s, state |-> "recording",
                         pendingEv |-> "none",
                         mimeType |-> ChooseMimeType(supported)])
                  /\ mediaRecorderRef' = r
                  /\ recordingState' = "recording"
                  /\ startTimeRef' = now
                  /\ timers' = Append(timers, TRUE)
                  /\ durationIntervalRef' = t
                  /\ UNCHANGED error
          ELSE \* streamRef.current = stream, then the throw and the catch
               /\ error' = RecErrorMessage("Other")
               /\ recordingState' = "inactive"
               /\ streams' = StopTracks(strs, s)
               /\ streamRef' = NULL
               /\ UNCHANGED <<recorders, mediaRecorderRef, startTimeRef,
                              timers, durationIntervalRef>>
    /\ UNCHANGED <<mounted, teardown, arrived, liveVars, hasMediaDevices, supported, analysis, hasMediaRecorder,
                   urls, now,
                   audioURL, duration, audioChunksRef>>

\* 'dataavailable' listener
OnDataAvailable(size) ==
    audioChunksRef' = IF size > 0 THEN Append(audioChunksRef, size)
                      ELSE audioChunksRef

\* a timeslice of a recording recorder elapses (start(100))
RecTimeslice(r, size) ==
    /\ mounted = "recorder"
    /\ r \in DOMAIN recorders
    /\ recorders[r].state = "recording"
    /\ Len(audioChunksRef) < MaxChunks
    /\ lastOp' = Op("dataavailable", FALSE)
    /\ UNCHANGED lastCall
    /\ OnDataAvailable(size)
    /\ UNCHANGED <<mounted, teardown, arrived, liveVars, envVars, analysis, recordingState, audioURL, error,
                   duration, mediaRecorderRef, streamRef, startTimeRef,
                   durationIntervalRef>>

\* the dataavailable a stopped recorder fires before its stop event
RecFinalData(r, size) ==
    /\ mounted = "recorder"
    /\ r \in DOMAIN recorders
    /\ recorders[r].pendingEv = "data"
    /\ size > 0 => Len(audioChunksRef) < MaxChunks
    /\ lastOp' = Op("dataavailable", TRUE)
    /\ UNCHANGED lastCall
    /\ OnDataAvailable(size)
    /\ recorders' = [recorders EXCEPT ![r].pendingEv = "stop"]
    /\ UNCHANGED <<mounted, teardown, arrived, liveVars, hasMediaDevices, supported, analysis, hasMediaRecorder,
                   pendingGUM,
                   streams, timers, urls, now, recordingState, audioURL,
                   error, duration, mediaRecorderRef, streamRef,
                   startTimeRef, durationIntervalRef>>

\* the listener leaving the duration timer running on success
OnStop_KeepTimer ==
    IF Len(audioChunksRef) = 0 \/ BlobSize(audioChunksRef) = 0
    THEN /\ error' = "no audio data was recorded"
         /\ recordingState' = "inactive"
         /\ UNCHANGED <<audioURL, urls, timers, durationIntervalRef,
                        streams, streamRef>>
    ELSE /\ urls' = Append(urls, [live |-> TRUE, blob |-> audioChunksRef])
         /\ audioURL' = Len(urls) + 1
         /\ recordingState' = "stopped"
         /\ streams' = IF streamRef # NULL THEN StopTracks(streams, streamRef)
                       ELSE streams
         /\ streamRef' = NULL
         /\ UNCHANGED <<error, timers, durationIntervalRef>>

\* the listener finishing an empty recording without an error
OnStop_AcceptEmpty ==
    IF Len(audioChunksRef) = 0 \/ BlobSize(audioChunksRef) = 0
    THEN /\ recordingState' = "stopped"
         /\ UNCHANGED <<error, audioURL, urls, timers, durationIntervalRef,
                        streams, streamRef>>
    ELSE /\ urls' = Append(urls, [live |-> TRUE, blob |-> audioChunksRef])
         /\ audioURL' = Len(urls) + 1
         /\ recordingState' = "stopped"
         /\ timers' = ClearInterval(timers, durationIntervalRef)
         /\ durationIntervalRef' = NULL
         /\ streams' = IF streamRef # NULL THEN StopTracks(streams, streamRef)
                       ELSE streams
         /\ streamRef' = NULL
         /\ UNCHANGED error

\* the listener returning silently when nothing was captured
OnStop_SilentEmpty ==
    IF Len(audioChunksRef) = 0 \/ BlobSize(audioChunksRef) = 0
    THEN UNCHANGED <<error, recordingState, audioURL, urls, timers,
                     durationIntervalRef, streams, streamRef>>
    ELSE /\ urls' = Append(urls, [live |-> TRUE, blob |-> audioChunksRef])
         /\ audioURL' = Len(urls) + 1
         /\ recordingState' = "stopped"
         /\ timers' = ClearInterval(timers, durationIntervalRef)
         /\ durationIntervalRef' = NULL
         /\ streams' = IF streamRef # NULL THEN StopTracks(streams, streamRef)
                       ELSE streams
         /\ streamRef' = NULL
         /\ UNCHANGED error

\* 'stop' listener
OnStop ==
    IF Len(audioChunksRef) = 0
    THEN /\ error' = "no audio data was recorded"
         /\ recordingState' = "inactive"
         /\ UNCHANGED <<audioURL, urls, timers, durationIntervalRef,
                        streams, streamRef>>
    ELSE IF BlobSize(audioChunksRef) = 0
    THEN /\ error' = "no audio data captured"
         /\ recordingState' = "inactive"
         /\ UNCHANGED <<audioURL, urls, timers, durationIntervalRef,
                        streams, streamRef>>
    ELSE /\ urls' = Append(urls, [live |-> TRUE, blob |-> audioChunksRef])
         /\ audioURL' = Len(urls) + 1
         /\ recordingState' = "stopped"
         /\ timers' = ClearInterval(timers, durationIntervalRef)
         /\ durationIntervalRef' = NULL
         /\ streams' = IF streamRef # NULL THEN StopTracks(streams, streamRef)
                       ELSE streams
         /\ streamRef' = NULL
         /\ UNCHANGED error

\* the stop event of recorder r is delivered
RecStopEvent(r) ==
    /\ mounted = "recorder"
    /\ r \in DOMAIN recorders
    /\ recorders[r].pendingEv = "stop"
    /\ Len(audioChunksRef) > 0 => Len(urls) < MaxUrls
    /\ lastOp' = Op("stop", FALSE)
    /\ UNCHANGED lastCall
    /\ OnStop
    /\ recorders' =
         LET done == [recorders EXCEPT ![r].pendingEv = "none"]
         IN IF Len(audioChunksRef) > 0 /\ BlobSize(audioChunksRef) > 0
               /\ streamRef # NULL
            THEN TracksEnded(done, streamRef)
            ELSE done
    /\ UNCHANGED <<mounted, teardown, arrived, liveVars, hasMediaDevices, supported, analysis, hasMediaRecorder,
                   pendingGUM,
                   now, duration, mediaRecorderRef, audioChunksRef,
                   startTimeRef>>

\* 'error' listener
OnError ==
    /\ error' = "recording failed"
    /\ recordingState' = "inactive"

\* recorder r fails: the platform fires error, then stops the recorder
RecErrorEvent(r) ==
    /\ mounted = "recorder"
    /\ r \in DOMAIN recorders
    /\ recorders[r].state = "recording"
    /\ lastOp' = Op("error", FALSE)
    /\ UNCHANGED lastCall
    /\ OnError
    /\ recorders' = [recorders EXCEPT ![r].state = "inactive",
                                      ![r].pendingEv = "data"]
    /\ UNCHANGED <<mounted, teardown, arrived, liveVars, hasMediaDevices, supported, analysis, hasMediaRecorder,
                   pendingGUM,
                   streams, timers, urls, now, audioURL, duration,
                   mediaRecorderRef, audioChunksRef, streamRef, startTimeRef,
                   durationIntervalRef>>

\* stopRecording reporting an error when nothing is being recorded
StopRecording_Complains ==
    /\ mounted = "recorder"
    /\ lastOp' = Op("stopRecording", recordingState = "recording")
    /\ lastCall' = Call("stopRecording", recordingState = "recording")
    /\ recorders' = IF mediaRecorderRef # NULL /\ recordingState = "recording"
                    THEN RecorderStop(recorders, mediaRecorderRef)
                    ELSE recorders
    /\ error' = IF recordingState = "recording" THEN error
                ELSE "not recording"
    /\ UNCHANGED <<mounted, teardown, arrived, liveVars, hasMediaDevices, supported, analysis,
                   hasMediaRecorder, pendingGUM, streams, timers, urls, now,
                   recordingState, audioURL, duration, mediaRecorderRef,
                   audioChunksRef, streamRef, startTimeRef,
                   durationIntervalRef>>

\* stopRecording
StopRecording ==
    /\ mounted = "recorder"
    /\ lastOp' = Op("stopRecording", recordingState = "recording")
    /\ lastCall' = Call("stopRecording", recordingState = "recording")
    /\ recorders' = IF mediaRecorderRef # NULL /\ recordingState = "recording"
                    THEN RecorderStop(recorders, mediaRecorderRef)
                    ELSE recorders
    /\ UNCHANGED <<mounted, teardown, arrived, liveVars, hasMediaDevices, supported, analysis, hasMediaRecorder,
                   pendingGUM,
                   streams, timers, urls, now, recVars>>

\* resetRecording
ResetRecording ==
    /\ mounted = "recorder"
    /\ lastOp' = Op("resetRecording", pendingGUM # <<>>)
    /\ lastCall' = Call("resetRecording", pendingGUM # <<>>)
    /\ LET recs == IF mediaRecorderRef # NULL /\ recordingState = "recording"
                   THEN RecorderStop(recorders, mediaRecorderRef)
                   ELSE recorders
       IN IF streamRef # NULL
          THEN /\ streams' = StopTracks(streams, streamRef)
               /\ recorders' = TracksEnded(recs, streamRef)
          ELSE /\ streams' = streams
               /\ recorders' = recs
    /\ urls' = Revoke(urls, audioURL)
    /\ streamRef' = NULL
    /\ timers' = ClearInterval(timers, durationIntervalRef)
    /\ durationIntervalRef' = NULL
    /\ audioURL' = NULL
    /\ recordingState' = "inactive"
    /\ error' = "none"
    /\ duration' = 0
    /\ audioChunksRef' = <<>>
    \* history: the acquisitions in flight were reset
    /\ pendingGUM' = [i \in DOMAIN pendingGUM |-> [cancelled |-> TRUE]]
    /\ UNCHANGED <<mounted, teardown, arrived, liveVars, hasMediaDevices, supported, analysis, hasMediaRecorder,
                   now,
                   mediaRecorderRef, startTimeRef>>

\* a second passes; every interval still running calls
\* setDuration(floor((Date.now() - startTimeRef.current) / 1000))
Tick ==
    /\ mounted = "recorder"
    /\ now < MaxTime
    /\ lastOp' = Op("tick", \E t \in DOMAIN timers : timers[t])
    /\ UNCHANGED lastCall
    /\ now' = now + 1
    /\ duration' = IF \E t \in DOMAIN timers : timers[t]
                   THEN now' - startTimeRef
                   ELSE duration
    /\ UNCHANGED <<mounted, teardown, arrived, liveVars, hasMediaDevices, supported, analysis, hasMediaRecorder,
                   pendingGUM,
                   streams, recorders, timers, urls, recordingState,
                   audioURL, error, mediaRecorderRef, audioChunksRef,
                   streamRef, startTimeRef, durationIntervalRef>>

\* the component unmounts: useAudioRecorder registers no effect, so nothing
\* of it runs.  What the platform delivers to an unmounted hook is not
\* followed.
UnmountRecorder ==
    /\ mounted = "recorder"
    /\ mounted' = "none"
    /\ lastOp' = Op("unmountRecorder", recordingState = "recording")
    /\ lastCall' = Call("unmountRecorder", recordingState = "recording")
    /\ UNCHANGED <<teardown, arrived, envVars, analysis, recVars, liveVars>>

\* ---- DeepgramLiveTranscription (deepgramClient) --------------------------

NoSend == [conn |-> NULL, state |-> "none", finished |-> FALSE,
           sample |-> 0, frame |-> 0]

\* sendAudio: the frame goes to this.connection.send, or is dropped
SendAudio(x, int16) ==
    lastSend' = IF connection # NULL /\ clientIsConnected
                THEN [conn |-> connection,
                      state |-> conns[connection].state,
                      finished |-> conns[connection].finished,
                      sample |-> x, frame |-> int16]
                ELSE lastSend

\* stopTranscription flipping the flag instead of clearing it
StopTranscription_Toggle ==
    IF connection # NULL
    THEN /\ conns' = [conns EXCEPT ![connection].finished = TRUE]
         /\ clientIsConnected' = ~clientIsConnected
    ELSE UNCHANGED <<conns, clientIsConnected>>

\* stopTranscription: connection.finish() and the flag
StopTranscription ==
    IF connection # NULL
    THEN /\ conns' = [conns EXCEPT ![connection].finished = TRUE]
         /\ clientIsConnected' = FALSE
    ELSE UNCHANGED <<conns, clientIsConnected>>

\* isConnectionActive
IsConnectionActive == clientIsConnected

\* ---- useDeepgramLive ------------------------------------------------------

SP == " "

\* String.prototype.trim on a sequence of characters
RECURSIVE TrimStart(_)
TrimStart(s) == IF s # <<>> /\ Head(s) = SP THEN TrimStart(Tail(s)) ELSE s
RECURSIVE TrimEnd(_)
TrimEnd(s) ==
    IF s # <<>> /\ s[Len(s)] = SP THEN TrimEnd(SubSeq(s, 1, Len(s) - 1)) ELSE s
\* the transcript returned as it is stored
Trim_Off(s) == s

Trim(s) == TrimEnd(TrimStart(s))

\* number of final events accumulated in a transcript string
RECURSIVE Separators(_)
Separators(s) ==
    IF s = <<>> THEN 0
    ELSE (IF Head(s) = SP THEN 1 ELSE 0) + Separators(Tail(s))

\* the catch block leaving isListening as it is
LiveCatch_KeepListening(message) ==
    /\ error' = message
    /\ UNCHANGED isListening

\* catch block of startListening
LiveCatch(message) ==
    /\ error' = message
    /\ isListening' = FALSE

\* startListening up to the await of getUserMedia
StartListening ==
    /\ mounted = "live"
    /\ Len(pendingGUM) < MaxPending
    /\ lastOp' = Op("startListening", pendingGUM # <<>> \/ isListening)
    /\ lastCall' = Call("startListening", pendingGUM # <<>> \/ isListening)
    /\ IF hasMediaDevices
       THEN /\ error' = "none"
            /\ isListening' = TRUE
            /\ pendingGUM' = Append(pendingGUM, [cancelled |-> FALSE])
       ELSE /\ LiveCatch("TypeError")
            /\ UNCHANGED pendingGUM
    /\ UNCHANGED <<mounted, teardown, arrived, recOnly, hasMediaDevices, supported, analysis, streams, streamRef,
                   graphs, conns, lastSend, connection, clientIsConnected,
                   transcript, interimTranscript, finalTranscript, confidence,
                   words, isConnected, connectionState, audioContextRef,
                   processorRef>>

\* getUserMedia rejects: catch block
LiveGumReject(i, name) ==
    /\ mounted = "live"
    /\ i \in DOMAIN pendingGUM
    /\ lastOp' = Op("liveGumReject", pendingGUM[i].cancelled)
    /\ UNCHANGED lastCall
    /\ pendingGUM' = RemoveAt(pendingGUM, i)
    /\ LiveCatch(name)
    /\ UNCHANGED <<mounted, teardown, arrived, recOnly, hasMediaDevices, supported, analysis, streams, streamRef,
                   graphs, conns, lastSend, connection, clientIsConnected,
                   transcript, interimTranscript, finalTranscript, confidence,
                   words, isConnected, connectionState, audioContextRef,
                   processorRef>>

\* getUserMedia resolves: the audio graph is built and
\* startLiveTranscription runs; client.listen.live returns a connection or
\* throws (live = FALSE), which startLiveTranscription rethrows
LiveGumResolve(i, live) ==
    /\ mounted = "live"
    /\ i \in DOMAIN pendingGUM
    /\ Len(streams) < MaxStreams
    /\ lastOp' = Op("liveGumResolve", pendingGUM[i].cancelled)
    /\ UNCHANGED lastCall
    /\ pendingGUM' = RemoveAt(pendingGUM, i)
    /\ streams' = Append(streams, [live |-> TRUE])
    /\ streamRef' = Len(streams) + 1
    /\ graphs' = Append(graphs, [stream |-> Len(streams) + 1,
                                 contextClosed |-> FALSE,
                                 processorConnected |-> TRUE])
    /\ audioContextRef' = Len(graphs) + 1
    /\ processorRef' = Len(graphs) + 1
    /\ IF live
       THEN /\ conns' = Append(conns, [state |-> "connecting",
                                       finished |-> FALSE])
            /\ connection' = Len(conns) + 1
            /\ UNCHANGED <<error, isListening>>
       ELSE /\ LiveCatch("listen.live failed")
            /\ UNCHANGED <<conns, connection>>
    /\ UNCHANGED <<mounted, teardown, arrived, recOnly, hasMediaDevices, supported, analysis, lastSend,
                   clientIsConnected, transcript, interimTranscript,
                   finalTranscript, confidence, words, isConnected,
                   connectionState>>

\* int16Array[i] = Math.max(-32768, Math.min(32767, inputData[i] * 32768)).
\* A sample x is the number n / SampleUnit; scaling by 32768, a power of two,
\* is exact in binary floating point, so x * 32768 is n / Fraction.  The
\* store into the Int16Array truncates towards zero and keeps the low 16
\* bits as a signed value.
Scale == 32768
Int16Min == -32768
Int16Max == 32767
Fraction == 4        \* steps a sample resolves between two int16 values
SampleUnit == Scale * Fraction
Trunc(num, den) == IF num >= 0 THEN num \div den ELSE -((-num) \div den)
ToInt16(v) == ((v + 32768) % 65536) - 32768
Max(a, b) == IF a >= b THEN a ELSE b
Min(a, b) == IF a <= b THEN a ELSE b
\* the conversion without its clamp
FloatToInt16_NoClamp(n) == ToInt16(Trunc(n, Fraction))

FloatToInt16(n) ==
    ToInt16(Trunc(Max(Int16Min * Fraction, Min(Int16Max * Fraction, n)),
                  Fraction))

\* onaudioprocess of graph g, for a buffer holding the sample x / SampleUnit
AudioProcess(g, x) ==
    /\ mounted = "live"
    /\ g \in DOMAIN graphs
    /\ graphs[g].processorConnected
    /\ ~graphs[g].contextClosed
    /\ lastOp' = Op("audioprocess", IsConnectionActive)
    /\ UNCHANGED lastCall
    /\ IF IsConnectionActive THEN SendAudio(x, FloatToInt16(x))
       ELSE UNCHANGED lastSend
    /\ UNCHANGED <<mounted, teardown, arrived, recOnly, hasMediaDevices, supported, analysis, pendingGUM, streams,
                   streamRef, error, graphs, conns, connection,
                   clientIsConnected, transcript, interimTranscript,
                   finalTranscript, confidence, words, isConnected,
                   isListening, connectionState, audioContextRef,
                   processorRef>>

\* onConnectionChange callback of the hook
OnConnectionChange(state) ==
    /\ connectionState' = state
    /\ isConnected' = (state = "OPEN")

\* Open listener of connection c
ConnOpen(c) ==
    /\ mounted = "live"
    /\ c \in DOMAIN conns
    /\ conns[c].state = "connecting"
    /\ lastOp' = Op("Open", conns[c].finished)
    /\ UNCHANGED lastCall
    /\ conns' = [conns EXCEPT ![c].state = "open"]
    /\ clientIsConnected' = TRUE
    /\ OnConnectionChange("OPEN")
    /\ UNCHANGED <<mounted, teardown, arrived, recOnly, hasMediaDevices, supported, analysis, pendingGUM, streams,
                   streamRef, error, graphs, lastSend, connection,
                   transcript, interimTranscript, finalTranscript, confidence,
                   words, isListening, audioContextRef, processorRef>>

\* Close listener of connection c
ConnClose(c) ==
    /\ mounted = "live"
    /\ c \in DOMAIN conns
    /\ conns[c].state # "closed"
    /\ lastOp' = Op("Close", conns[c].finished)
    /\ UNCHANGED lastCall
    /\ conns' = [conns EXCEPT ![c].state = "closed"]
    /\ clientIsConnected' = FALSE
    /\ OnConnectionChange("CLOSED")
    /\ UNCHANGED <<mounted, teardown, arrived, recOnly, hasMediaDevices, supported, analysis, pendingGUM, streams,
                   streamRef, error, graphs, lastSend, connection,
                   transcript, interimTranscript, finalTranscript, confidence,
                   words, isListening, audioContextRef, processorRef>>

\* the Error listener retrying by itself: a new getUserMedia is issued
ConnError_Retry(c) ==
    /\ mounted = "live"
    /\ c \in DOMAIN conns
    /\ conns[c].state # "closed"
    /\ Len(pendingGUM) < MaxPending
    /\ lastOp' = Op("Error", conns[c].finished)
    /\ UNCHANGED lastCall
    /\ error' = "transcription error"
    /\ pendingGUM' = Append(pendingGUM, [cancelled |-> FALSE])
    /\ UNCHANGED <<mounted, teardown, arrived, recOnly, hasMediaDevices, supported, analysis, streams,
                   streamRef, liveVars>>

\* Error listener of connection c: the hook's onError callback
ConnError(c) ==
    /\ mounted = "live"
    /\ c \in DOMAIN conns
    /\ conns[c].state # "closed"
    /\ lastOp' = Op("Error", conns[c].finished)
    /\ UNCHANGED lastCall
    /\ error' = "transcription error"
    /\ UNCHANGED <<mounted, teardown, arrived, recOnly, hasMediaDevices, supported, analysis, pendingGUM, streams,
                   streamRef, liveVars>>

\* the callback with a final branch that keeps the interim text
OnTranscript_KeepInterim(result) ==
    /\ IF result.is_final
       THEN /\ finalTranscript' = finalTranscript \o <<SP>> \o result.transcript
            /\ transcript' = transcript \o <<SP>> \o result.transcript
            /\ UNCHANGED interimTranscript
       ELSE /\ interimTranscript' = result.transcript
            /\ UNCHANGED <<finalTranscript, transcript>>
    /\ confidence' = result.confidence
    /\ words' = IF result.hasWords THEN result.words ELSE words

\* the callback appending a non-final text to the interim text
OnTranscript_AppendInterim(result) ==
    /\ IF result.is_final
       THEN /\ finalTranscript' = finalTranscript \o <<SP>> \o result.transcript
            /\ interimTranscript' = <<>>
            /\ transcript' = transcript \o <<SP>> \o result.transcript
       ELSE /\ interimTranscript' = interimTranscript \o result.transcript
            /\ UNCHANGED <<finalTranscript, transcript>>
    /\ confidence' = result.confidence
    /\ words' = IF result.hasWords THEN result.words ELSE words

\* the callback putting a final text in front of the accumulated ones
OnTranscript_Prepend(result) ==
    /\ IF result.is_final
       THEN /\ finalTranscript' = <<SP>> \o result.transcript \o finalTranscript
            /\ interimTranscript' = <<>>
            /\ transcript' = <<SP>> \o result.transcript \o transcript
       ELSE /\ interimTranscript' = result.transcript
            /\ UNCHANGED <<finalTranscript, transcript>>
    /\ confidence' = result.confidence
    /\ words' = IF result.hasWords THEN result.words ELSE words

\* the callback showing the text of a non-final event in transcript
OnTranscript_ShowInterim(result) ==
    /\ IF result.is_final
       THEN /\ finalTranscript' = finalTranscript \o <<SP>> \o result.transcript
            /\ interimTranscript' = <<>>
            /\ transcript' = transcript \o <<SP>> \o result.transcript
       ELSE /\ interimTranscript' = result.transcript
            /\ transcript' = transcript \o <<SP>> \o result.transcript
            /\ UNCHANGED finalTranscript
    /\ confidence' = result.confidence
    /\ words' = IF result.hasWords THEN result.words ELSE words

\* onTranscript callback of the hook
OnTranscript(result) ==
    /\ IF result.is_final
       THEN /\ finalTranscript' = finalTranscript \o <<SP>> \o result.transcript
            /\ interimTranscript' = <<>>
            /\ transcript' = transcript \o <<SP>> \o result.transcript
       ELSE /\ interimTranscript' = result.transcript
            /\ UNCHANGED <<finalTranscript, transcript>>
    /\ confidence' = result.confidence
    /\ words' = IF result.hasWords THEN result.words ELSE words

\* Transcript listener of connection c; data.hasAlt: the event carries
\* channel.alternatives[0]
ConnTranscript(c, data) ==
    /\ mounted = "live"
    /\ c \in DOMAIN conns
    /\ conns[c].state = "open"
    /\ UNCHANGED lastCall
    /\ IF data.hasAlt
       THEN LET result == [transcript |-> data.transcript,
                           confidence |-> data.confidence,
                           is_final |-> data.is_final,
                           hasWords |-> data.hasWords,
                           words |-> data.words]
            IN /\ OnTranscript(result)
               /\ lastOp' = OpEv("Transcript", TRUE, result)
       ELSE /\ lastOp' = Op("Transcript", FALSE)
            /\ UNCHANGED <<finalTranscript, interimTranscript, transcript,
                           confidence, words>>
    /\ arrived' = IF data.hasAlt /\ data.is_final
                  THEN Append(arrived, data.transcript)
                  ELSE arrived
    /\ UNCHANGED <<mounted, teardown, recOnly, hasMediaDevices, supported, analysis, pendingGUM,
                   streams, streamRef, error, graphs, conns, lastSend, connection,
                   clientIsConnected, isConnected, isListening,
                   connectionState, audioContextRef, processorRef>>

\* stopListening also emptying the transcript
StopListeningRun_ClearTranscript ==
    /\ isListening' = FALSE
    /\ StopTranscription
    /\ graphs' =
         LET g1 == IF processorRef # NULL
                   THEN [graphs EXCEPT
                           ![processorRef].processorConnected = FALSE]
                   ELSE graphs
         IN IF audioContextRef # NULL
            THEN [g1 EXCEPT ![audioContextRef].contextClosed = TRUE]
            ELSE g1
    /\ processorRef' = NULL
    /\ audioContextRef' = NULL
    /\ streams' = IF streamRef # NULL THEN StopTracks(streams, streamRef)
                  ELSE streams
    /\ streamRef' = NULL
    /\ isConnected' = FALSE
    /\ connectionState' = "null"
    /\ teardown' =
         (IF connection # NULL THEN <<"channel">> ELSE <<>>)
         \o (IF processorRef # NULL THEN <<"processor">> ELSE <<>>)
         \o (IF audioContextRef # NULL THEN <<"context">> ELSE <<>>)
         \o (IF streamRef # NULL THEN <<"tracks">> ELSE <<>>)
    \* history: the acquisitions in flight were stopped
    /\ pendingGUM' = [i \in DOMAIN pendingGUM |-> [cancelled |-> TRUE]]
    /\ transcript' = <<>>
    /\ interimTranscript' = <<>>
    /\ finalTranscript' = <<>>
    /\ UNCHANGED <<arrived, recOnly, hasMediaDevices, supported, analysis, error, lastSend,
                   connection, confidence, words>>

\* the body of stopListening; teardown records, in the order of the
\* statements, what it released
StopListeningRun ==
    /\ isListening' = FALSE
    /\ StopTranscription
    /\ graphs' =
         LET g1 == IF processorRef # NULL
                   THEN [graphs EXCEPT
                           ![processorRef].processorConnected = FALSE]
                   ELSE graphs
         IN IF audioContextRef # NULL
            THEN [g1 EXCEPT ![audioContextRef].contextClosed = TRUE]
            ELSE g1
    /\ processorRef' = NULL
    /\ audioContextRef' = NULL
    /\ streams' = IF streamRef # NULL THEN StopTracks(streams, streamRef)
                  ELSE streams
    /\ streamRef' = NULL
    /\ isConnected' = FALSE
    /\ connectionState' = "null"
    /\ teardown' =
         (IF connection # NULL THEN <<"channel">> ELSE <<>>)
         \o (IF processorRef # NULL THEN <<"processor">> ELSE <<>>)
         \o (IF audioContextRef # NULL THEN <<"context">> ELSE <<>>)
         \o (IF streamRef # NULL THEN <<"tracks">> ELSE <<>>)
    \* history: the acquisitions in flight were stopped
    /\ pendingGUM' = [i \in DOMAIN pendingGUM |-> [cancelled |-> TRUE]]
    /\ UNCHANGED <<arrived, recOnly, hasMediaDevices, supported, analysis, error, lastSend,
                   connection, transcript, interimTranscript,
                   finalTranscript, confidence, words>>

\* stopListening
StopListening ==
    /\ mounted = "live"
    /\ lastOp' = Op("stopListening", pendingGUM # <<>>)
    /\ lastCall' = Call("stopListening", pendingGUM # <<>>)
    /\ StopListeningRun
    /\ UNCHANGED mounted

\* the component unmounts: the cleanup of the hook's effect calls
\* stopListening.  What the platform delivers to an unmounted hook is not
\* followed.
UnmountLive ==
    /\ mounted = "live"
    /\ mounted' = "none"
    /\ lastOp' = Op("unmountLive", isListening)
    /\ lastCall' = Call("unmountLive", isListening)
    /\ StopListeningRun

\* stopListening, or the unmount cleanup, of another component that uses
\* useDeepgramLive: its refs and state are its own, deepgramClient is the
\* one instance of the module
OtherStopListening ==
    /\ mounted = "live"
    /\ lastOp' = Op("otherStopListening", isListening)
    /\ UNCHANGED lastCall
    /\ StopTranscription
    /\ UNCHANGED <<mounted, teardown, arrived, recOnly, hasMediaDevices, supported, analysis,
                   pendingGUM, streams, streamRef, error, graphs, lastSend,
                   connection, transcript, interimTranscript,
                   finalTranscript, confidence, words, isConnected,
                   isListening, connectionState, audioContextRef,
                   processorRef>>

\* clearTranscript
ClearTranscript ==
    /\ mounted = "live"
    /\ lastOp' = Op("clearTranscript", FALSE)
    /\ lastCall' = Call("clearTranscript", FALSE)
    /\ transcript' = <<>>
    /\ interimTranscript' = <<>>
    /\ finalTranscript' = <<>>
    /\ confidence' = 0
    /\ words' = <<>>
    /\ error' = "none"
    /\ arrived' = <<>>
    /\ UNCHANGED <<mounted, teardown, recOnly, hasMediaDevices, supported, analysis, pendingGUM, streams,
                   streamRef, graphs, conns, lastSend, connection,
                   clientIsConnected, isConnected, isListening,
                   connectionState, audioContextRef, processorRef>>

\* ---- inputs ---------------------------------------------------------------

MaxFinals == 2       \* final events accumulated in one transcript

Texts == {<<>>, <<"a">>, <<"b">>}
WordLists == {<<>>, <<"a">>}

\* samples of the lifecycle specification: 1.0
LifecycleSamples == {SampleUnit}

\* Transcript events of the lifecycle specification
LifecycleEvents ==
    {[hasAlt |-> TRUE, transcript |-> <<"a">>, confidence |-> 1,
      is_final |-> f, hasWords |-> FALSE, words |-> <<>>] : f \in BOOLEAN}

\* Transcript events of the reconciliation specification
\* (an event that lacks a field carries its default in the record)
TranscriptEvents ==
    {e \in [hasAlt : BOOLEAN, transcript : Texts, confidence : {0, 1},
            is_final : BOOLEAN, hasWords : BOOLEAN, words : WordLists] :
        /\ ~e.hasWords => e.words = <<>>
        /\ ~e.hasAlt => /\ e.transcript = <<>> /\ e.confidence = 0
                        /\ ~e.is_final /\ ~e.hasWords}

\* a final event is taken while the transcript has room for it
Room(data, finals) ==
    (data.hasAlt /\ data.is_final) => Separators(finalTranscript) < finals

LifecycleFinals == 1 \* final events accumulated, lifecycle specification
MaxSegments == 3     \* final events accumulated, spacing specification

\* Transcript events of the spacing specification: final events, every text
SegmentEvents ==
    {[hasAlt |-> TRUE, transcript |-> t, confidence |-> 1,
      is_final |-> TRUE, hasWords |-> FALSE, words |-> <<>>] : t \in Texts}
SampleRadius == 6    \* samples tried on each side of a boundary value

\* samples of the conversion specification, as numerators over SampleUnit:
\* around -2.0, -1.5, -1.0, 0, 32767/32768, 1.0, 1.5 and 2.0
SampleCentres ==
    {-2 * SampleUnit, -(3 * SampleUnit) \div 2, -SampleUnit, 0,
     SampleUnit - Fraction, SampleUnit, (3 * SampleUnit) \div 2,
     2 * SampleUnit}
Samples == {c + d : c \in SampleCentres, d \in (-SampleRadius)..SampleRadius}

\* ---- specification --------------------------------------------------------

\* no analysis has been made
NoAnalysis == [quality |-> "none"]

\* the types a platform's MediaRecorder can support, among the preferred
TypeSet == {PreferredTypes[k] : k \in DOMAIN PreferredTypes}

\* the state after construction, on one of the given platforms
InitOn(platforms) ==
    /\ mounted \in {"recorder", "live"}
    /\ lastOp = [op |-> "mount", flag |-> FALSE, again |-> FALSE,
                 ev |-> NoEvent]
    /\ lastCall = [op |-> "mount", flag |-> FALSE, failed |-> FALSE,
                   sole |-> FALSE]
    /\ teardown = <<>>
    /\ arrived = <<>>
    /\ hasMediaDevices \in BOOLEAN
    /\ hasMediaRecorder \in BOOLEAN
    /\ supported \in platforms
    /\ pendingGUM = <<>>
    /\ streams = <<>>
    /\ recorders = <<>>
    /\ timers = <<>>
    /\ urls = <<>>
    /\ now = 0
    /\ recordingState = "inactive"
    /\ audioURL = NULL
    /\ error = "none"
    /\ duration = 0
    /\ mediaRecorderRef = NULL
    /\ audioChunksRef = <<>>
    /\ streamRef = NULL
    /\ startTimeRef = 0
    /\ durationIntervalRef = NULL
    /\ graphs = <<>>
    /\ conns = <<>>
    /\ lastSend = NoSend
    /\ connection = NULL
    /\ clientIsConnected = FALSE
    /\ transcript = <<>>
    /\ interimTranscript = <<>>
    /\ finalTranscript = <<>>
    /\ confidence = 0
    /\ words = <<>>
    /\ isConnected = FALSE
    /\ isListening = FALSE
    /\ connectionState = "null"
    /\ audioContextRef = NULL
    /\ processorRef = NULL
    /\ analysis = NoAnalysis

\* a platform whose MediaRecorder supports every preferred type
Init == InitOn({TypeSet})

NextRecorder ==
    \/ StartRecording
    \/ \E i \in 1..MaxPending, name \in GumFailures : RecGumReject(i, name)
    \/ \E i \in 1..MaxPending : RecGumResolve(i)
    \/ \E r \in 1..MaxStreams, size \in 0..MaxChunkSize : RecTimeslice(r, size)
    \/ \E r \in 1..MaxStreams, size \in 0..MaxChunkSize : RecFinalData(r, size)
    \/ \E r \in 1..MaxStreams : RecStopEvent(r)
    \/ \E r \in 1..MaxStreams : RecErrorEvent(r)
    \/ StopRecording
    \/ ResetRecording
    \/ Tick
    \/ UnmountRecorder

NextLive ==
    \/ StartListening
    \/ \E i \in 1..MaxPending, name \in GumFailures : LiveGumReject(i, name)
    \/ \E i \in 1..MaxPending, live \in BOOLEAN : LiveGumResolve(i, live)
    \/ \E g \in 1..MaxStreams, x \in LifecycleSamples : AudioProcess(g, x)
    \/ \E c \in 1..MaxStreams : ConnOpen(c)
    \/ \E c \in 1..MaxStreams : ConnClose(c)
    \/ \E c \in 1..MaxStreams : ConnError(c)
    \/ \E c \in 1..MaxStreams, data \in LifecycleEvents :
          Room(data, LifecycleFinals) /\ ConnTranscript(c, data)
    \/ StopListening
    \/ ClearTranscript
    \/ UnmountLive

Next == NextRecorder \/ NextLive

\* either hook, mounted in a component
Spec == Init /\ [][Next]_vars

\* useAudioRecorder alone
InitRecorder == Init /\ mounted = "recorder"
SpecRecorder == InitRecorder /\ [][NextRecorder]_vars

\* useDeepgramLive and deepgramClient alone
InitLive == Init /\ mounted = "live"
SpecLive == InitLive /\ [][NextLive]_vars

\* transcript reconciliation: a streaming session receiving every kind of
\* Transcript event
NextTranscript ==
    \/ StartListening
    \/ \E i \in 1..MaxPending : LiveGumResolve(i, TRUE)
    \/ \E c \in 1..MaxStreams : ConnOpen(c)
    \/ \E c \in 1..MaxStreams, data \in TranscriptEvents :
          Room(data, MaxFinals) /\ ConnTranscript(c, data)
    \/ ClearTranscript

\* a streaming session on a platform that has getUserMedia
InitSupported == InitLive /\ hasMediaDevices = TRUE /\ hasMediaRecorder = TRUE
SpecTranscript == InitSupported /\ [][NextTranscript]_vars

\* frame conversion: a streaming session whose processor is handed every
\* sample of Samples
NextConversion ==
    \/ StartListening
    \/ \E i \in 1..MaxPending : LiveGumResolve(i, TRUE)
    \/ \E c \in 1..MaxStreams : ConnOpen(c)
    \/ \E g \in 1..MaxStreams, x \in Samples : AudioProcess(g, x)

SpecConversion == InitSupported /\ [][NextConversion]_vars

\* spacing of the accumulated transcript: a streaming session receiving
\* final events only
NextSpacing ==
    \/ StartListening
    \/ \E i \in 1..MaxPending : LiveGumResolve(i, TRUE)
    \/ \E c \in 1..MaxStreams : ConnOpen(c)
    \/ \E c \in 1..MaxStreams, data \in SegmentEvents :
          Room(data, MaxSegments) /\ ConnTranscript(c, data)

SpecSpacing == InitSupported /\ [][NextSpacing]_vars

\* useDeepgramLive mounted in two components: the session of one of them,
\* and the calls the other makes on the shared deepgramClient
NextShared ==
    \/ StartListening
    \/ \E i \in 1..MaxPending : LiveGumResolve(i, TRUE)
    \/ \E g \in 1..MaxStreams, x \in LifecycleSamples : AudioProcess(g, x)
    \/ \E c \in 1..MaxStreams : ConnOpen(c)
    \/ \E c \in 1..MaxStreams : ConnClose(c)
    \/ StopListening
    \/ OtherStopListening

SpecShared == InitSupported /\ [][NextShared]_vars

\* ---- AIAnalyzer --------------------------------------------------------------

\* the phrases simulatePythonAnalysis looks for in the lower-cased text
PositiveKeywords ==
    <<"no", "not interested", "hang up", "verify", "scam", "fake",
      "suspicious">>
NegativeKeywords == <<"okay", "yes", "sure", "help me", "what do i do">>

\* scenario identifiers a caller passes; only the first two earn a bonus
ScenarioIds == {"call-1", "call-2", "other"}

\* the tier of a confidence score
Quality(confidence_score) ==
    IF confidence_score >= 80 THEN "excellent"
    ELSE IF confidence_score >= 60 THEN "good"
    ELSE IF confidence_score >= 40 THEN "fair"
    ELSE "poor"

\* simulatePythonAnalysis without the normalisation of the score
SimulatePythonAnalysis_NoClamp(pos, neg, scenarioId, irs, microsoft) ==
    LET irsMatch == scenarioId = "call-1" /\ irs
        techMatch == scenarioId = "call-2" /\ microsoft
        score == 50 + pos * 15 - neg * 20
                 + (IF irsMatch THEN 10 ELSE 0)
                 + (IF techMatch THEN 10 ELSE 0)
    IN [confidence_score |-> score,
        quality |-> Quality(score),
        positive_keywords |-> pos,
        negative_keywords |-> neg,
        scenario_matches |->
            (IF irsMatch THEN <<"recognized IRS scam pattern">> ELSE <<>>)
            \o (IF techMatch THEN <<"recognized tech support scam">>
                ELSE <<>>)]

\* simulatePythonAnalysis on a text that contains pos of the positive
\* phrases and neg of the negative ones, and 'irs' / 'microsoft' or not
SimulatePythonAnalysis(pos, neg, scenarioId, irs, microsoft) ==
    LET irsMatch == scenarioId = "call-1" /\ irs
        techMatch == scenarioId = "call-2" /\ microsoft
        score == 50 + pos * 15 - neg * 20
                 + (IF irsMatch THEN 10 ELSE 0)
                 + (IF techMatch THEN 10 ELSE 0)
        confidence_score == Max(0, Min(100, score))
    IN [confidence_score |-> confidence_score,
        quality |-> Quality(confidence_score),
        positive_keywords |-> pos,
        negative_keywords |-> neg,
        scenario_matches |->
            (IF irsMatch THEN <<"recognized IRS scam pattern">> ELSE <<>>)
            \o (IF techMatch THEN <<"recognized tech support scam">>
                ELSE <<>>)]

\* AIAnalyzer.analyzeResponse(responseText, scenarioId)
AnalyzeResponse(pos, neg, scenarioId, irs, microsoft) ==
    /\ analysis' = SimulatePythonAnalysis(pos, neg, scenarioId, irs, microsoft)
    /\ UNCHANGED <<mounted, lastOp, lastCall, teardown, arrived, envVars,
                   recVars, liveVars>>

\* the analyzer applied to every count of matches, scenario and bonus word
NextAnalysis ==
    \E pos \in 0..Len(PositiveKeywords), neg \in 0..Len(NegativeKeywords),
       scenarioId \in ScenarioIds, irs \in BOOLEAN, microsoft \in BOOLEAN :
        AnalyzeResponse(pos, neg, scenarioId, irs, microsoft)

SpecAnalysis == InitSupported /\ [][NextAnalysis]_vars

\* ---- choice of encoding ------------------------------------------------------

\* recordings on every platform: each subset of the preferred types
NextEncoding ==
    \/ StartRecording
    \/ \E i \in 1..MaxPending : RecGumResolve(i)
    \/ \E r \in 1..MaxStreams, size \in 0..MaxChunkSize : RecFinalData(r, size)
    \/ \E r \in 1..MaxStreams : RecStopEvent(r)
    \/ StopRecording

InitEncoding ==
    /\ InitOn(SUBSET TypeSet)
    /\ mounted = "recorder"
    /\ hasMediaDevices = TRUE
    /\ hasMediaRecorder = TRUE
SpecEncoding == InitEncoding /\ [][NextEncoding]_vars

\* ---- delivery of the recorder's events -----------------------------------------

\* the recorder hook in a component that stays mounted
NextDelivery ==
    \/ StartRecording
    \/ \E i \in 1..MaxPending, name \in GumFailures : RecGumReject(i, name)
    \/ \E i \in 1..MaxPending : RecGumResolve(i)
    \/ \E r \in 1..MaxStreams, size \in 0..MaxChunkSize : RecTimeslice(r, size)
    \/ \E r \in 1..MaxStreams, size \in 0..MaxChunkSize : RecFinalData(r, size)
    \/ \E r \in 1..MaxStreams : RecStopEvent(r)
    \/ \E r \in 1..MaxStreams : RecErrorEvent(r)
    \/ StopRecording
    \/ ResetRecording
    \/ Tick

\* a stopped MediaRecorder fires its last dataavailable and its stop: the
\* event loop runs every queued event
DeliveryFairness ==
    /\ WF_vars(\E r \in 1..MaxStreams, size \in 0..MaxChunkSize :
                   RecFinalData(r, size))
    /\ WF_vars(\E r \in 1..MaxStreams : RecStopEvent(r))

SpecDelivery == InitRecorder /\ [][NextDelivery]_vars /\ DeliveryFairness

\* ---- properties ------------------------------------------------------------

LiveStreams == {s \in DOMAIN streams : streams[s].live}
RunningTimers == {t \in DOMAIN timers : timers[t]}
\* no recorder has an event still to deliver
RecorderQuiet == \A r \in DOMAIN recorders : recorders[r].pendingEv = "none"

\* C1: when resetRecording ran while startRecording was waiting for
\* getUserMedia, the continuation of startRecording discards the stream:
\* recordingState is 'inactive', no MediaRecorder was started on the stream,
\* no duration timer runs and the stream's tracks are stopped.
C1_ResetDiscardsLateStream ==
    (lastOp.op = "recGumResolve" /\ lastOp.flag) =>
        /\ recordingState = "inactive"
        /\ ~streams[Len(streams)].live
        /\ \A r \in DOMAIN recorders : recorders[r].stream # Len(streams)
        /\ RunningTimers = {}

\* C2: when stopListening ran while startListening was waiting for
\* getUserMedia, the continuation of startListening leaves nothing active:
\* the stream's tracks are stopped, the audio context is closed, the channel
\* is not left open and isListening is false.
C2_StopDiscardsLateStream ==
    (lastOp.op = "liveGumResolve" /\ lastOp.flag) =>
        /\ ~streams[Len(streams)].live
        /\ graphs[Len(graphs)].contextClosed
        /\ \A c \in DOMAIN conns :
               conns[c].finished \/ conns[c].state = "closed"
        /\ ~isListening

\* C3: a startRecording or startListening call made while a session is
\* starting or active is ignored: it issues no acquisition and changes
\* nothing of the platform objects or of the hook.
C3_SecondStartIgnored ==
    [][(lastOp'.op \in {"startRecording", "startListening"} /\ lastOp'.flag)
         => UNCHANGED <<envVars, recVars, liveVars>>]_vars

\* C4: after resetRecording (called with no acquisition in flight) and the
\* recorder events it left pending, recordingState is 'inactive', audioURL
\* and error are null, duration is 0, the tracks are stopped and no duration
\* timer runs.
C4_ResetEndsIdle ==
    (/\ lastCall.op = "resetRecording"
     /\ ~lastCall.flag
     /\ RecorderQuiet) =>
        /\ recordingState = "inactive"
        /\ audioURL = NULL
        /\ error = "none"
        /\ duration = 0
        /\ streamRef = NULL
        /\ LiveStreams = {}
        /\ RunningTimers = {}

\* C5: once a failure of the recorder has been handled (error set, state
\* 'inactive', nothing pending), the microphone is released (streamRef null,
\* every track stopped) and the duration timer is cleared.
C5_FailureReleasesMicrophone ==
    (/\ mounted = "recorder"
     /\ error # "none"
     /\ recordingState = "inactive"
     /\ pendingGUM = <<>>
     /\ RecorderQuiet) =>
        /\ streamRef = NULL
        /\ LiveStreams = {}
        /\ RunningTimers = {}

\* C6: whenever the streaming hook shows an error, every resource of the
\* session is released: tracks stopped, audio contexts closed, processors
\* disconnected, channels closed.
C6_ErrorImpliesReleased ==
    (mounted = "live" /\ error # "none") =>
        /\ LiveStreams = {}
        /\ \A g \in DOMAIN graphs :
               graphs[g].contextClosed /\ ~graphs[g].processorConnected
        /\ \A c \in DOMAIN conns :
               conns[c].finished \/ conns[c].state = "closed"

\* C7: a frame reaches connection.send only while that connection is open
\* and has not been finished by stopTranscription.
C7_SendOnlyWhileOpen ==
    lastSend.conn # NULL => (lastSend.state = "open" /\ ~lastSend.finished)

\* C8: a Transcript event handed to onTranscript with is_final = true
\* appends one separator and the event's text to finalTranscript and empties
\* interimTranscript; one with is_final = false leaves finalTranscript as it
\* was.
C8_FinalAppendsInterimClears ==
    [][(lastOp'.op = "Transcript" /\ lastOp'.flag) =>
         IF lastOp'.ev.is_final
         THEN /\ finalTranscript' =
                    finalTranscript \o <<SP>> \o lastOp'.ev.transcript
              /\ Separators(finalTranscript') =
                    Separators(finalTranscript) + 1
              /\ interimTranscript' = <<>>
         ELSE finalTranscript' = finalTranscript]_vars

\* a final event was applied on top of an earlier one
C8_Witness ==
    /\ lastOp.op = "Transcript"
    /\ lastOp.flag
    /\ lastOp.ev.is_final
    /\ lastOp.ev.transcript # <<>>
    /\ Separators(finalTranscript) = 2
    /\ Trim(finalTranscript) # <<>>
    /\ interimTranscript = <<>>

\* C9: stopRecording, resetRecording or stopListening called right after
\* the same call changes nothing of the hook or of the platform objects.
C9_StopIdempotent ==
    [][lastOp'.again => UNCHANGED <<envVars, recVars, liveVars>>]_vars

\* a second stop right after the first: stopRecording on an active
\* recording, or stopListening
C9_Witness ==
    /\ lastOp.again
    /\ \/ lastOp.op = "stopRecording" /\ lastOp.flag
       \/ lastOp.op = "stopListening" /\ conns # <<>>

\* C10: every frame sent holds an int16 value; a sample of 1.0 or more is
\* sent as 32767 and one of -1.0 or less as -32768, and no sample changes
\* sign.
C10_ConversionSaturates ==
    lastSend.conn # NULL =>
        /\ lastSend.frame \in Int16Min..Int16Max
        /\ lastSend.sample >= SampleUnit => lastSend.frame = Int16Max
        /\ lastSend.sample <= -SampleUnit => lastSend.frame = Int16Min
        /\ lastSend.sample > 0 => lastSend.frame >= 0
        /\ lastSend.sample < 0 => lastSend.frame <= 0

\* the sample 1.5 was sent as 32767
C10_Witness ==
    /\ lastSend.conn # NULL
    /\ lastSend.sample = (3 * SampleUnit) \div 2
    /\ lastSend.frame = Int16Max

\* the stop event just delivered answers a stopRecording call made on the
\* only session in progress, while the hook showed no error
SoleStopDelivered ==
    /\ lastOp.op = "stop"
    /\ lastCall.op = "stopRecording"
    /\ lastCall.flag
    /\ lastCall.sole
    /\ ~lastCall.failed

C12_EmptyRecordingReported ==
    (SoleStopDelivered /\ BlobSize(audioChunksRef) = 0) =>
        /\ error # "none"
        /\ recordingState = "inactive"
        /\ audioURL = NULL

\* a recording was stopped before any chunk was captured
C12_Witness ==
    /\ SoleStopDelivered
    /\ audioChunksRef = <<>>
    /\ error = "no audio data was recorded"
    /\ urls = <<>>

\* C13: starting from a cleared transcript, a non-final event followed by
\* a final event carrying the text B leaves the transcript returned by the
\* hook (transcript.trim()) equal to B, with no residue of the interim text
\* and no separator before or after it, and interimTranscript empty.
C13_InterimThenFinal ==
    [][(/\ lastOp.op = "Transcript" /\ lastOp.flag /\ ~lastOp.ev.is_final
        /\ interimTranscript = lastOp.ev.transcript
        /\ transcript = <<>>
        /\ finalTranscript = <<>>
        /\ lastOp'.op = "Transcript" /\ lastOp'.flag /\ lastOp'.ev.is_final)
         => /\ Trim(transcript') = lastOp'.ev.transcript
            /\ Trim(finalTranscript') = lastOp'.ev.transcript
            /\ interimTranscript' = <<>>]_vars

\* the first final event of a transcript, "b", was applied after a
\* non-final event (whose words are still shown): the stored transcript
\* holds the separator and the text, the returned one the text
C13_Witness ==
    /\ lastOp.op = "Transcript"
    /\ lastOp.flag
    /\ lastOp.ev.is_final
    /\ lastOp.ev.transcript = <<"b">>
    /\ ~lastOp.ev.hasWords
    /\ words = <<"a">>
    /\ transcript = <<SP, "b">>
    /\ Trim(transcript) = <<"b">>
    /\ interimTranscript = <<>>

\* C14: stopListening releases in this order: the processor is
\* disconnected, then the audio context is closed, then the tracks are
\* stopped, and only then is the channel closed; the channel is never
\* closed before the processor is disconnected.
C14_TeardownOrder ==
    LET rank == [x \in {"processor", "context", "tracks", "channel"} |->
                    CASE x = "processor" -> 1
                      [] x = "context"   -> 2
                      [] x = "tracks"    -> 3
                      [] x = "channel"   -> 4]
    IN \A i, j \in DOMAIN teardown :
           i < j => rank[teardown[i]] < rank[teardown[j]]

\* C15: at most one microphone stream is live at any time, and it is the
\* one the hook's streamRef holds: no sequence of calls leaves a live
\* stream that the hook no longer references.
C15_OneLiveStreamHeld ==
    \A s \in LiveStreams : s = streamRef

\* C16: whenever recordingState is 'inactive' or 'stopped' and no
\* acquisition is in flight, the recorder's streamRef is null and every
\* track is stopped.
C16_IdleHoldsNoStream ==
    (/\ mounted = "recorder"
     /\ recordingState \in {"inactive", "stopped"}
     /\ pendingGUM = <<>>) =>
        /\ streamRef = NULL
        /\ LiveStreams = {}

\* C17 as stated: while error is set, a startRecording or startListening
\* call made before a reset acquires no device and opens no channel.
C17_StartRefusedAfterFailure ==
    [][(lastOp'.op \in {"startRecording", "startListening"}
        /\ error # "none")
         => /\ pendingGUM' = pendingGUM
            /\ streams' = streams
            /\ conns' = conns]_vars

\* C17, amended: while error is set, a startRecording or startListening
\* call made before any reset is accepted: it clears error and, where
\* getUserMedia exists, issues a new acquisition of the device.
C17_StartAfterFailureAcquires ==
    [][(lastOp'.op \in {"startRecording", "startListening"}
        /\ error # "none"
        /\ hasMediaDevices)
         => /\ error' = "none"
            /\ Len(pendingGUM') = Len(pendingGUM) + 1
            /\ ~pendingGUM'[Len(pendingGUM')].cancelled]_vars

\* a start call made while an error was shown is waiting for getUserMedia
C17_Witness ==
    /\ lastOp.op \in {"startRecording", "startListening"}
    /\ lastCall.op = lastOp.op
    /\ lastCall.failed
    /\ error = "none"
    /\ pendingGUM # <<>>

\* C18: once stopRecording has been called on an active recording, the
\* duration shown never changes until startRecording or resetRecording is
\* called: no timer tick after the stop request updates it.
C18_DurationFrozenAfterStop ==
    [][(/\ lastCall.op = "stopRecording"
        /\ lastCall.flag
        /\ lastCall'.op = "stopRecording")
         => duration' = duration]_vars

\* C19: when the component of either hook unmounts while a session is
\* active, the microphone tracks are stopped, the timers are cleared and
\* the channel is closed.
C19_UnmountReleases ==
    (mounted = "none" /\ lastOp.flag) =>
        /\ LiveStreams = {}
        /\ RunningTimers = {}
        /\ \A c \in DOMAIN conns :
               conns[c].finished \/ conns[c].state = "closed"

\* C20: after stopListening and the channel events still pending, the
\* connection state shown is CLOSED and the client's isConnected flag is
\* false, whatever the state was before the call.
C20_StopEndsClosed ==
    (/\ lastCall.op = "stopListening"
     /\ pendingGUM = <<>>
     /\ conns # <<>>
     /\ \A c \in DOMAIN conns : conns[c].state = "closed") =>
        /\ connectionState = "CLOSED"
        /\ ~clientIsConnected

\* C21: the connection state shown by the streaming hook changes only from
\* null (idle or connecting) to OPEN, from there to CLOSED, or from null to
\* CLOSED, and back to null by stopListening or the unmount; once CLOSED it
\* does not become OPEN again until a new session is started.
C21_ConnectionStateOrder ==
    [][connectionState' # connectionState =>
         \/ connectionState = "null" /\ connectionState' \in {"OPEN", "CLOSED"}
         \/ connectionState = "OPEN" /\ connectionState' = "CLOSED"
         \/ /\ connectionState' = "null"
            /\ lastOp'.op \in {"stopListening", "unmountLive"}]_vars

\* C22: a Close or Error event of a channel issues no acquisition and
\* creates no connection or stream, and an Error event is reported in the
\* error field; an acquisition is issued only by a startListening call and a
\* connection is created only by the continuation of such a call.
C22_NoAutomaticRetry ==
    [][/\ lastOp'.op \in {"Close", "Error"} =>
            /\ pendingGUM' = pendingGUM
            /\ streams' = streams
            /\ graphs' = graphs
            /\ Len(conns') = Len(conns)
            /\ connection' = connection
       /\ lastOp'.op = "Error" => error' # "none"
       /\ (mounted = "live" /\ Len(pendingGUM') > Len(pendingGUM)) =>
            lastOp'.op = "startListening"
       /\ Len(conns') > Len(conns) => lastOp'.op = "liveGumResolve"]_vars

\* an Error event of an open channel was reported while the session goes on
C22_Witness ==
    /\ lastOp.op = "Error"
    /\ error = "transcription error"
    /\ isListening
    /\ pendingGUM = <<>>
    /\ Len(conns) = 1
    /\ conns[1].state = "open"

\* C23: stopListening leaves transcript, interimTranscript, finalTranscript,
\* confidence and words as they were, and an accumulated transcript is
\* emptied by clearTranscript only.
C23_StopKeepsTranscript ==
    [][/\ lastOp'.op \in {"stopListening", "unmountLive"} =>
            UNCHANGED <<transcript, interimTranscript, finalTranscript,
                        confidence, words>>
       /\ (\/ transcript # <<>> /\ transcript' = <<>>
           \/ finalTranscript # <<>> /\ finalTranscript' = <<>>) =>
            lastOp'.op = "clearTranscript"]_vars

\* stopListening ran on a session holding final and interim text
C23_Witness ==
    /\ lastOp.op = "stopListening"
    /\ finalTranscript # <<>>
    /\ transcript # <<>>
    /\ interimTranscript # <<>>
    /\ confidence = 1
    /\ ~isListening

\* C24: no failure of startRecording or startListening escapes the hook:
\* a rejected getUserMedia, a missing getUserMedia or MediaRecorder and a
\* throwing client.listen.live all end in the catch block, which sets error
\* and returns recordingState to 'inactive' or isListening to false.
C24_FailuresCaught ==
    [][(\/ lastOp'.op \in {"recGumReject", "liveGumReject"}
        \/ lastOp'.op = "recGumResolve" /\ ~hasMediaRecorder
        \/ lastOp'.op = "liveGumResolve" /\ Len(conns') = Len(conns)
        \/ /\ lastOp'.op \in {"startRecording", "startListening"}
           /\ ~hasMediaDevices)
         => /\ error' # "none"
            /\ mounted = "recorder" => recordingState' = "inactive"
            /\ mounted = "live" => ~isListening']_vars

\* client.listen.live threw after the microphone had been acquired
C24_Witness ==
    /\ lastOp.op = "liveGumResolve"
    /\ error = "listen.live failed"
    /\ ~isListening
    /\ streamRef # NULL
    /\ conns = <<>>

\* C25: in the finalTranscript the hook returns (finalTranscript.trim()),
\* consecutive final segments are separated by exactly one space, for every
\* sequence of final events, those with an empty text included: it never
\* holds two adjacent spaces.
C25_SingleSpaceBetweenFinals ==
    LET shown == Trim(finalTranscript)
    IN \A i \in 1..(Len(shown) - 1) : ~(shown[i] = SP /\ shown[i + 1] = SP)

\* C26: after every final Transcript event, confidence and words are that
\* event's own confidence and word list, the empty list when the event
\* carries none.
C26_FinalSetsConfidenceAndWords ==
    [][(lastOp'.op = "Transcript" /\ lastOp'.flag /\ lastOp'.ev.is_final)
         => /\ confidence' = lastOp'.ev.confidence
            /\ words' = lastOp'.ev.words]_vars

\* C27: every non-final Transcript event makes interimTranscript exactly
\* the event's text, whatever interim text was shown before.
C27_InterimReplaced ==
    [][(lastOp'.op = "Transcript" /\ lastOp'.flag /\ ~lastOp'.ev.is_final)
         => interimTranscript' = lastOp'.ev.transcript]_vars

\* a non-final event "b" replaced the interim text of an earlier event
\* (whose words are still shown)
C27_Witness ==
    /\ lastOp.op = "Transcript"
    /\ lastOp.flag
    /\ ~lastOp.ev.is_final
    /\ lastOp.ev.transcript = <<"b">>
    /\ ~lastOp.ev.hasWords
    /\ words = <<"a">>
    /\ interimTranscript = <<"b">>

\* the texts of a sequence of final events as the callback accumulates them
RECURSIVE Joined(_)
Joined(texts) ==
    IF texts = <<>> THEN <<>>
    ELSE Joined(SubSeq(texts, 1, Len(texts) - 1))
            \o <<SP>> \o texts[Len(texts)]

\* C28: after any sequence of Transcript events, finalTranscript and
\* transcript hold the texts of the final events in the order the events
\* arrived, none skipped, duplicated or reordered.
C28_FinalsInArrivalOrder ==
    /\ finalTranscript = Joined(arrived)
    /\ transcript = Joined(arrived)

\* as many final events as the transcript takes arrived, the first and the
\* last with different texts
C28_Witness ==
    /\ Len(arrived) = MaxFinals
    /\ arrived[1] = <<"a">>
    /\ arrived[MaxFinals] = <<"b">>
    /\ finalTranscript = Joined(arrived)

\* C29: stopListening or the unmount of another streaming session leaves
\* the channel and the connected flag of a session that is listening on an
\* open channel as they were.
C29_SessionsIsolated ==
    [][(lastOp'.op = "otherStopListening" /\ isListening /\ isConnected)
         => /\ conns' = conns
            /\ clientIsConnected' = clientIsConnected]_vars

\* C30: stopRecording called while recordingState is 'inactive' or
\* 'stopped' changes nothing: recordingState, audioURL, error, duration,
\* the chunk list, the stream handle and the platform objects stay as they
\* were.
C30_StopWhenIdleNoOp ==
    [][(lastOp'.op = "stopRecording" /\ ~lastOp'.flag)
         => UNCHANGED <<recVars, envVars>>]_vars

\* stopRecording was called on a finished recording
C30_Witness ==
    /\ lastOp.op = "stopRecording"
    /\ ~lastOp.flag
    /\ recordingState = "stopped"
    /\ audioURL # NULL
    /\ mediaRecorderRef # NULL

\* C31: while a recording is active the chunk list only grows at its end
\* (what it held stays, in the same order), and the contents of an artifact
\* built at stop are not changed by any later step.
C31_ChunksAppendOnly ==
    [][/\ (recordingState = "recording" /\ recordingState' = "recording") =>
            /\ Len(audioChunksRef') >= Len(audioChunksRef)
            /\ SubSeq(audioChunksRef', 1, Len(audioChunksRef))
                   = audioChunksRef
       /\ \A u \in DOMAIN urls : urls'[u].blob = urls[u].blob]_vars

\* C32: the type a recorder is created with is the first of
\* 'audio/webm;codecs=opus', 'audio/webm', 'audio/mp4' that the platform
\* supports; it is the platform default only when none of the three is.
C32_FirstSupportedType ==
    \A r \in DOMAIN recorders :
        LET m == recorders[r].mimeType
            opus == "audio/webm;codecs=opus" \in supported
            webm == "audio/webm" \in supported
            mp4 == "audio/mp4" \in supported
        IN /\ opus => m = "audio/webm;codecs=opus"
           /\ (~opus /\ webm) => m = "audio/webm"
           /\ (~opus /\ ~webm /\ mp4) => m = "audio/mp4"
           /\ (m = "") <=> (~opus /\ ~webm /\ ~mp4)

\* a recorder created with the second preference although the third is
\* supported as well
C32_Witness ==
    /\ supported = {"audio/webm", "audio/mp4"}
    /\ \E r \in DOMAIN recorders : recorders[r].mimeType = "audio/webm"

\* C33: the confidence score of an analysis is an integer from 0 to 100 and
\* the quality is its tier: 80 and more excellent, 60 and more good, 40 and
\* more fair, less poor.
C33_ScoreInRangeAndTiered ==
    analysis # NoAnalysis =>
        /\ analysis.confidence_score \in 0..100
        /\ analysis.quality = "excellent" <=> analysis.confidence_score >= 80
        /\ analysis.quality = "good" <=> analysis.confidence_score \in 60..79
        /\ analysis.quality = "fair" <=> analysis.confidence_score \in 40..59
        /\ analysis.quality = "poor" <=> analysis.confidence_score < 40

\* every positive phrase matched with the bonus: the sum exceeds 100
C33_Witness ==
    /\ analysis # NoAnalysis
    /\ analysis.positive_keywords = Len(PositiveKeywords)
    /\ analysis.negative_keywords = 0
    /\ analysis.scenario_matches # <<>>
    /\ analysis.confidence_score = 100
    /\ analysis.quality = "excellent"

\* C34: when stopRecording is called on an active recording and the stop
\* event of the recorder is delivered, the hook leaves 'recording': it
\* comes to 'stopped' with an artifact or to 'inactive' with an error.
C34_StopEventuallyLeavesRecording ==
    (lastOp.op = "stopRecording" /\ lastCall.op = "stopRecording"
        /\ lastCall.flag)
    ~> \/ recordingState = "stopped" /\ audioURL # NULL
       \/ recordingState = "inactive" /\ error # "none"

\* the stop event of a recording stopped by stopRecording has been delivered
\* and the hook has left 'recording'
C34_Witness ==
    /\ lastOp.op = "stop"
    /\ lastCall.op = "stopRecording"
    /\ lastCall.flag
    /\ recordingState # "recording"

\* C35: an Open or Close event of a connection that was stopped, or that is
\* not the client's current connection, changes neither the client's
\* connected flag nor the connection state the hook exposes.
C35_StaleEventsIgnored ==
    [][\A c \in DOMAIN conns :
          (/\ lastOp'.op \in {"Open", "Close"}
           /\ conns'[c].state # conns[c].state
           /\ (conns[c].finished \/ c # connection))
          => /\ clientIsConnected' = clientIsConnected
             /\ isConnected' = isConnected
             /\ connectionState' = connectionState]_vars

\* C36: from the return of stopListening to the next call, isConnected is
\* false and no frame is handed to the connection, whatever events arrive.
C36_StoppedStaysDisconnected ==
    [][lastCall'.op = "stopListening" =>
          /\ ~isConnected'
          /\ lastCall.op = "stopListening" => lastSend' = lastSend]_vars

\* C37: transcript and finalTranscript, as stored and as exposed, are equal
\* after every step; only a final event and clearTranscript change them, so
\* the text of a non-final event never enters transcript.
C37_TranscriptIsFinalTranscript ==
    [][/\ transcript' = finalTranscript'
       /\ Trim(transcript') = Trim(finalTranscript')
       /\ (transcript' # transcript \/ finalTranscript' # finalTranscript)
            => \/ lastOp'.op = "clearTranscript"
               \/ lastOp'.op = "Transcript" /\ lastOp'.ev.is_final]_vars

\* a non-final event with text arrived after a final one: the interim text
\* is shown apart and transcript still equals finalTranscript
C37_Witness ==
    /\ lastOp.op = "Transcript"
    /\ lastOp.flag
    /\ ~lastOp.ev.is_final
    /\ interimTranscript # <<>>
    /\ transcript # <<>>
    /\ transcript = finalTranscript

\* C38: at most one duration timer is running, and one is running only
\* while recordingState is 'recording'.
C38_OneTimerOnlyWhileRecording ==
    /\ Cardinality(RunningTimers) <= 1
    /\ RunningTimers # {} => recordingState = "recording"

\* C39: the only object URL not revoked, if there is one, is the one
\* exposed as audioURL.
C39_OnlyExposedUrlLive ==
    \A u \in DOMAIN urls : urls[u].live => u = audioURL

====
